---- MODULE Spec2Model ----
(***************************************************************************)
(* Downloaded-interval reconciliation of sane-fin-site:                    *)
(* DatabaseContext.save_history_data (fin_storage/db.py) for one exporter, *)
(* the views that call it, and the caches of fin_storage/cachers.py.       *)
(* Dates are day numbers; a moment is a pair <<date, time of day>>.        *)
(***************************************************************************)
EXTENDS Integers, FiniteSets, Sequences, TLC

\* ---------------------------------------------------------------- bounds
\* the calendar of the model: the dates 1..MaxDate
MaxDate == 4
\* the storage hands out the primary keys 1..MaxId to DownloadedInterval rows
MaxId == 3

Dates == 1..MaxDate
Moments == Dates \X {"am"}

\* the requests that run save_history_data at the same time
Requests == {"r1", "r2"}

VARIABLES
    intervals,   \* rows of DownloadedInterval of the exporter: [id, date_from, date_to]
    history,     \* rows of InstrumentValue of the exporter: moment -> value
    nextId,      \* the next primary key the storage assigns to a DownloadedInterval
    txn,         \* per request: where its call stands, its arguments, the rows it has read
    start,       \* the intervals the concurrent requests started from
    now,         \* the clock: the day datetime.date.today() and timezone.now() show
    cache,       \* rows of CachedItem: [key, result, revive_moment, expiry_moment]
    registered,  \* what get_all_instrument_exporters() of sane_finances returns, in order
    static,      \* the attributes of class StaticDataCache and of its instances
    session      \* the session info of the download form: moment_from, moment_to

\* the state outside the tables of the exporter
site == <<now, cache, registered, static, session>>

vars == <<intervals, history, nextId, txn, start, site>>

\* ------------------------------------------------------- pure helpers
\* datetime.date() of a moment
MomentDate(m) == m[1]

Min(S) == CHOOSE x \in S : \A y \in S : x <= y
Max(S) == CHOOSE x \in S : \A y \in S : x >= y

\* history_data of one call: InstrumentValue items with distinct moments,
\* as both callers build it, here as a function moment -> value
HistoryDataOver(moments, values) == UNION {[S -> values] : S \in SUBSET moments}

\* Defined for a non-empty history_data only: the source has None otherwise, and
\* never compares it (lines 390, 392 test for None, lines 430, 432 are reached
\* with an empty history_data only when both edges are pierced).
min_history_date(history_data) ==
    Min({MomentDate(m) : m \in DOMAIN history_data})

max_history_date(history_data) ==
    Max({MomentDate(m) : m \in DOMAIN history_data})

\* (mutant: lines 390-391 left out)
claimed_date_from(history_data, date_from) == date_from

\* date_from / date_to after the widening of lines 390-393
widened_from(history_data, date_from) ==
    IF history_data # << >> /\ min_history_date(history_data) < date_from
    THEN min_history_date(history_data)
    ELSE date_from

\* (mutant: lines 392-393 left out)
claimed_date_to(history_data, date_to) == date_to

widened_to(history_data, date_to) ==
    IF history_data # << >> /\ max_history_date(history_data) > date_to
    THEN max_history_date(history_data)
    ELSE date_to

\* date_from, date_to below are the widened ones
\* (mutant: the one-day adjacency buffer of line 405 forgotten)
affected_intervals_overlapping(all, date_from, date_to) ==
    {it \in all : it.date_to >= date_from /\ it.date_from <= date_to}

affected_intervals(all, date_from, date_to) ==
    {it \in all : it.date_to >= date_from - 1 /\ it.date_from <= date_to + 1}

\* (mutant: the edge itself tested instead of the day before it)
pierce_left_at_edge(all, date_from) ==
    \E it \in all : it.date_from <= date_from /\ date_from <= it.date_to

pierce_left(all, date_from) ==
    \E it \in all : it.date_from <= date_from - 1 /\ date_from - 1 <= it.date_to

\* (mutant: the last day of the range tested instead of the day after it)
pierce_right_at_edge(all, date_to) ==
    \E it \in all : it.date_from <= date_to /\ date_to <= it.date_to

pierce_right(all, date_to) ==
    \E it \in all : it.date_from <= date_to + 1 /\ date_to + 1 <= it.date_to

\* (mutant: the adjustment of lines 430-431 left out)
min_date_from_untightened(all, affected, history_data, date_from) ==
    Min({date_from} \cup {it.date_from : it \in affected})

\* lines 425, 430-431
min_date_from(all, affected, history_data, date_from) ==
    IF ~pierce_left(all, date_from) /\ min_history_date(history_data) > date_from
    THEN min_history_date(history_data)
    ELSE Min({date_from} \cup {it.date_from : it \in affected})

\* (mutant: the adjustment of lines 432-433 left out)
max_date_to_untightened(all, affected, history_data, date_to) ==
    Max({date_to} \cup {it.date_to : it \in affected})

\* lines 426, 432-433
max_date_to(all, affected, history_data, date_to) ==
    IF ~pierce_right(all, date_to) /\ max_history_date(history_data) < date_to
    THEN max_history_date(history_data)
    ELSE Max({date_to} \cup {it.date_to : it \in affected})

\* (mutant: max for min at line 435)
interval_to_update_latest(affected) ==
    CHOOSE it \in affected : \A other \in affected : it.id >= other.id

\* line 435: min(affected_intervals, key=lambda it: it.id)
interval_to_update(affected) ==
    CHOOSE it \in affected : \A other \in affected : it.id <= other.id

\* What one call writes to the DownloadedInterval table, from the rows `all` it
\* has read: the primary keys it deletes, the row it saves, the row it creates.
NoWrites == [delete |-> {}, save |-> {}, create |-> {}]

\* (mutant: line 421 without its "or (pierce_left and pierce_right)")
merge_writes_with_history_only(all, affected, history_data, date_from, date_to) ==
    IF history_data # << >>
    THEN [delete |-> {it.id : it \in affected} \ {interval_to_update(affected).id},
          save |-> {[id |-> interval_to_update(affected).id,
                     date_from |-> min_date_from(all, affected, history_data, date_from),
                     date_to |-> max_date_to(all, affected, history_data, date_to)]},
          create |-> {}]
    ELSE NoWrites

\* lines 407-443
merge_writes(all, affected, history_data, date_from, date_to) ==
    IF history_data # << >> \/ (pierce_left(all, date_from) /\ pierce_right(all, date_to))
    THEN [delete |-> {it.id : it \in affected} \ {interval_to_update(affected).id},
          save |-> {[id |-> interval_to_update(affected).id,
                     date_from |-> min_date_from(all, affected, history_data, date_from),
                     date_to |-> max_date_to(all, affected, history_data, date_to)]},
          create |-> {}]
    ELSE NoWrites

\* (mutant: date_to=min_history_date at line 452)
create_writes_first_date(history_data) ==
    IF history_data # << >>
    THEN [delete |-> {}, save |-> {},
          create |-> {<<min_history_date(history_data), min_history_date(history_data)>>}]
    ELSE NoWrites

\* lines 445-452
create_writes(history_data) ==
    IF history_data # << >>
    THEN [delete |-> {}, save |-> {},
          create |-> {<<min_history_date(history_data), max_history_date(history_data)>>}]
    ELSE NoWrites

\* (mutant: lines 446-452 create the claimed range, with or without history data)
interval_writes_claimed(all, history_data, claimed_from, claimed_to) ==
    LET date_from == widened_from(history_data, claimed_from)
        date_to == widened_to(history_data, claimed_to)
        affected == affected_intervals(all, date_from, date_to)
    IN  IF affected # {}
        THEN merge_writes(all, affected, history_data, date_from, date_to)
        ELSE [delete |-> {}, save |-> {}, create |-> {<<date_from, date_to>>}]

\* lines 381-452
interval_writes(all, history_data, claimed_from, claimed_to) ==
    LET date_from == widened_from(history_data, claimed_from)
        date_to == widened_to(history_data, claimed_to)
        affected == affected_intervals(all, date_from, date_to)
    IN  IF affected # {}
        THEN merge_writes(all, affected, history_data, date_from, date_to)
        ELSE create_writes(history_data)

\* The table after the writes: Model.delete() and Model.save() address a row by
\* its primary key, objects.create() takes the next primary key.
written_intervals(rows, id, writes) ==
    {it \in rows : it.id \notin writes.delete /\ \A s \in writes.save : it.id # s.id}
        \cup writes.save
        \cup {[id |-> id, date_from |-> c[1], date_to |-> c[2]] : c \in writes.create}

\* (mutant: the save of line 443 before the deletes of lines 437-439)
written_steps_save_first(rows, id, writes) ==
    <<written_intervals(rows, id, [writes EXCEPT !.delete = {}]),
      written_intervals(rows, id, writes)>>

\* lines 437-452, one table after another: the table after the deletes of the
\* loop (every table inside the loop holds some of the rows before it and all
\* rows of the one after it), then the table after the save or the create
written_steps(rows, id, writes) ==
    <<written_intervals(rows, id, [writes EXCEPT !.save = {}, !.create = {}]),
      written_intervals(rows, id, writes)>>

\* (mutant: get_or_create for update_or_create at line 350)
get_or_create_history_data(stored, history_data) ==
    [m \in DOMAIN stored \cup DOMAIN history_data |->
        IF m \in DOMAIN stored THEN stored[m] ELSE history_data[m]]

\* update_or_create_history_data: upsert by (exporter, moment)
update_or_create_history_data(stored, history_data) ==
    [m \in DOMAIN stored \cup DOMAIN history_data |->
        IF m \in DOMAIN history_data THEN history_data[m] ELSE stored[m]]

\* UniqueConstraint(fields=['exporter', 'date_from'])
unique_exporter_date_from(rows) ==
    \A a, b \in rows : a.date_from = b.date_from => a = b

\* The store after one whole call of save_history_data on the store
\* (all, stored, id). A violated unique constraint raises IntegrityError out of
\* the transaction.atomic block, which rolls every write of the call back.
saved(all, stored, id, history_data, claimed_from, claimed_to) ==
    LET writes == interval_writes(all, history_data, claimed_from, claimed_to)
        rows == written_intervals(all, id, writes)
    IN  IF unique_exporter_date_from(rows)
        THEN [intervals |-> rows,
              history |-> update_or_create_history_data(stored, history_data),
              nextId |-> IF writes.create # {} THEN id + 1 ELSE id]
        ELSE [intervals |-> all, history |-> stored, nextId |-> id]

\* ------------------------------------------------------------- the machine
NoCall == <<<< >>, 1, 1>>
Idle == [pc |-> "idle", call |-> NoCall, read |-> {}]

\* Python's None, and a value that is not None: a set of no or of one element
None == {}
Some(value) == {value}

\* the registries of exporters that sane_finances can have registered
Registries == {"x", "y", "z"}

\* cachers.py 163-166: the class attributes of StaticDataCache as the class
\* statement leaves them; no instance exists yet. The cache table is empty,
\* the session has no info.
InitSite ==
    /\ now = 1
    /\ cache = {}
    /\ registered = <<"x">>
    /\ static = [available_exporters_registries |-> None,
                 history_data |-> << >>,
                 instances |-> [r \in Requests |-> None]]
    /\ session = None

Init ==
    /\ intervals = {}
    /\ history = << >>
    /\ nextId = 1
    /\ txn = [r \in Requests |-> Idle]
    /\ start = {}
    /\ InitSite

\* One whole call of save_history_data.
save_history_data(history_data, date_from, date_to) ==
    \E after \in {saved(intervals, history, nextId, history_data, date_from, date_to)} :
        /\ after.nextId <= MaxId + 1
        /\ intervals' = after.intervals
        /\ history' = after.history
        /\ nextId' = after.nextId
        /\ UNCHANGED <<txn, start, site>>

\* The calls of the views: both callers pass date_from <= date_to
\* (the download form rejects moment_from > moment_to).
Calls ==
    {c \in HistoryDataOver(Moments, {10}) \X Dates \X Dates : c[2] <= c[3]}

Next ==
    \E c \in Calls : save_history_data(c[1], c[2], c[3])

Spec == Init /\ [][Next]_vars

\* The same calls with history data that differs in its values and in the time
\* of day of its moments, on the first and the last date of the calendar.
PointMoments == {<<1, "am">>, <<1, "pm">>, <<MaxDate, "am">>}

PointCalls ==
    {c \in HistoryDataOver(PointMoments, {10, 20}) \X Dates \X Dates : c[2] <= c[3]}

NextPoints ==
    \E c \in PointCalls : save_history_data(c[1], c[2], c[3])

SpecPoints == Init /\ [][NextPoints]_vars

\* ---------------------------------------------- two requests at the same time
\* The calls of a download whose points lie inside the requested range.
DownloadCalls ==
    {c \in Calls : \A m \in DOMAIN c[1] : c[2] <= MomentDate(m) /\ MomentDate(m) <= c[3]}

\* one download after another
NextDownloads ==
    \E c \in DownloadCalls : save_history_data(c[1], c[2], c[3])

SpecDownloads == Init /\ [][NextDownloads]_vars

\* The store one earlier call has left.
InitConcurrent ==
    /\ \E c \in DownloadCalls : \E after \in {saved({}, << >>, 1, c[1], c[2], c[3])} :
            /\ intervals = after.intervals
            /\ history = after.history
            /\ nextId = after.nextId
            /\ start = after.intervals
    /\ txn = [r \in Requests |-> Idle]
    /\ InitSite

\* lines 376-405: the request enters transaction.atomic(savepoint=False) and
\* reads the exporter with its downloaded_intervals; nothing locks the rows.
ReadIntervals(r, c) ==
    /\ txn[r].pc = "idle"
    /\ txn' = [txn EXCEPT ![r] = [pc |-> "read", call |-> c, read |-> intervals]]
    /\ UNCHANGED <<intervals, history, nextId, start, site>>

\* lines 407-454 and the commit: the writes computed from the rows the request
\* has read reach the table as it is now. A violated unique constraint raises
\* IntegrityError and the transaction leaves nothing.
WriteAndCommit(r) ==
    /\ txn[r].pc = "read"
    /\ \E writes \in {interval_writes(txn[r].read, txn[r].call[1],
                                       txn[r].call[2], txn[r].call[3])} :
       \E rows \in {written_intervals(intervals, nextId, writes)} :
            IF unique_exporter_date_from(rows)
            THEN /\ intervals' = rows
                 /\ history' = update_or_create_history_data(history, txn[r].call[1])
                 /\ nextId' = IF writes.create # {} THEN nextId + 1 ELSE nextId
            ELSE UNCHANGED <<intervals, history, nextId>>
    /\ txn' = [txn EXCEPT ![r].pc = "done"]
    /\ UNCHANGED <<start, site>>

NextConcurrent ==
    \/ \E r \in Requests, c \in DownloadCalls : ReadIntervals(r, c)
    \/ \E r \in Requests : WriteAndCommit(r)

SpecConcurrent == InitConcurrent /\ [][NextConcurrent]_vars

\* ------------------------------------ how a call ends, and calls out of order
\* lines 381-386: min_history_date and max_history_date are None exactly when
\* history_data is empty; lines 387-388 assert that
history_dates_assertion(history_data) ==
    LET min_is_none == (history_data = << >>)
        max_is_none == (history_data = << >>)
    IN  \/ history_data # << >> /\ ~min_is_none /\ ~max_is_none
        \/ history_data = << >> /\ min_is_none /\ max_is_none

\* The call leaves by an exception: the AssertionError of lines 387-388 or the
\* IntegrityError of the unique constraint. Nothing in lines 366-457 compares
\* date_from with date_to.
raises(all, id, history_data, claimed_from, claimed_to) ==
    \/ ~history_dates_assertion(history_data)
    \/ ~unique_exporter_date_from(
            written_intervals(all, id,
                interval_writes(all, history_data, claimed_from, claimed_to)))

\* calls without history data whose date_from is after their date_to
InvertedProbes == {c \in {<< >>} \X Dates \X Dates : c[2] > c[3]}

\* save_history_data as a function of its arguments: the calls of the views and
\* the calls no view makes
NextInverted ==
    \E c \in Calls \cup InvertedProbes : save_history_data(c[1], c[2], c[3])

SpecInverted == Init /\ [][NextInverted]_vars

\* any history data with any claimed range, in order or not
AnyCalls == HistoryDataOver(Moments, {10}) \X Dates \X Dates

NextAnyRange ==
    \E c \in AnyCalls : save_history_data(c[1], c[2], c[3])

SpecAnyRange == Init /\ [][NextAnyRange]_vars

\* ------------------------------------------- one call, one write at a time
\* (mutant: the with-block of line 376 missing, every write commits on its own)
autocommit(committed, work, pc) == work

\* transaction.atomic(savepoint=False), line 376: what the table holds for
\* everybody else while the block runs (pc "intervals", "points"), after it was
\* left by an exception (pc "failed") and after it was left normally.
transaction_atomic(committed, work, pc) ==
    IF pc = "committed" THEN work ELSE committed

\* The store two earlier calls have left.
InitAtomic ==
    /\ \E c, d \in DownloadCalls :
       \E first \in {saved({}, << >>, 1, c[1], c[2], c[3])} :
       \E second \in {saved(first.intervals, first.history, first.nextId, d[1], d[2], d[3])} :
            /\ intervals = second.intervals
            /\ history = second.history
            /\ nextId = second.nextId
            /\ start = second.intervals
    /\ txn = [r \in Requests |-> Idle]
    /\ InitSite

\* the request r goes on as t; the table shows what the transaction lets through
Proceed(r, t) ==
    /\ txn' = [txn EXCEPT ![r] = t]
    /\ \E shown \in {transaction_atomic(
                        [intervals |-> intervals, history |-> history, nextId |-> nextId],
                        t.work, t.pc)} :
            /\ intervals' = shown.intervals
            /\ history' = shown.history
            /\ nextId' = shown.nextId
    /\ UNCHANGED <<start, site>>

\* lines 376-405: the block is entered and the rows of the exporter are read;
\* work is the table as the transaction sees it, pending the moments of
\* history_data not yet passed to update_or_create.
EnterAtomic(r, c) ==
    /\ \A q \in Requests : txn[q].pc = "idle"
    /\ Proceed(r, [pc |-> "intervals", call |-> c, read |-> intervals,
                   work |-> [intervals |-> intervals, history |-> history, nextId |-> nextId],
                   pending |-> DOMAIN c[1]])

\* lines 407-452: the deletes, the save or the create of the call; a violated
\* unique constraint raises IntegrityError out of the block.
WriteIntervals(r) ==
    /\ txn[r].pc = "intervals"
    /\ \E writes \in {interval_writes(txn[r].read, txn[r].call[1],
                                       txn[r].call[2], txn[r].call[3])} :
       \E rows \in {written_intervals(txn[r].work.intervals, txn[r].work.nextId, writes)} :
            IF unique_exporter_date_from(rows)
            THEN Proceed(r, [txn[r] EXCEPT
                    !.pc = "points",
                    !.work.intervals = rows,
                    !.work.nextId = IF writes.create # {} THEN @ + 1 ELSE @])
            ELSE Proceed(r, [txn[r] EXCEPT !.pc = "failed"])

\* lines 349-352: update_or_create of one item of history_data
UpsertPoint(r, m) ==
    /\ txn[r].pc = "points"
    /\ m \in txn[r].pending
    /\ Proceed(r, [txn[r] EXCEPT
            !.work.history = update_or_create_history_data(@, [k \in {m} |-> txn[r].call[1][k]]),
            !.pending = @ \ {m}])

\* any statement of the block raises (a database error at a delete, a save, a
\* create or an update_or_create): the block is left by the exception
RaiseInside(r) ==
    /\ txn[r].pc \in {"intervals", "points"}
    /\ Proceed(r, [txn[r] EXCEPT !.pc = "failed"])

\* the end of the block is reached: commit
LeaveAtomic(r) ==
    /\ txn[r].pc = "points"
    /\ txn[r].pending = {}
    /\ Proceed(r, [txn[r] EXCEPT !.pc = "committed"])

NextAtomic ==
    \/ \E c \in DownloadCalls : EnterAtomic("r1", c)
    \/ WriteIntervals("r1")
    \/ \E m \in Moments : UpsertPoint("r1", m)
    \/ RaiseInside("r1")
    \/ LeaveAtomic("r1")

SpecAtomic == InitAtomic /\ [][NextAtomic]_vars

\* ------------------------------------------------------ import of settings
\* models.DownloadedInterval.objects.update_or_create(exporter=, date_from=,
\* date_to=), lines 361-364: the row with these three values is kept if there
\* is one, and created with the next primary key if there is none
update_or_create_downloaded_interval(store, item) ==
    IF \E it \in store.intervals : it.date_from = item[1] /\ it.date_to = item[2]
    THEN store
    ELSE [store EXCEPT
            !.intervals = @ \cup {[id |-> store.nextId, date_from |-> item[1], date_to |-> item[2]]},
            !.nextId = @ + 1]

\* lines 360-364: the loop over the imported intervals, in their order
RECURSIVE update_or_create_downloaded_intervals(_, _)
update_or_create_downloaded_intervals(store, downloaded_intervals) ==
    IF downloaded_intervals = << >>
    THEN store
    ELSE update_or_create_downloaded_intervals(
            update_or_create_downloaded_interval(store, Head(downloaded_intervals)),
            Tail(downloaded_intervals))

\* The intervals of an exporter in a settings file, as serialize_settings writes
\* them (storage_manage.py 341-348): up to two pairs of dates, date_from <= date_to.
ImportedIntervals ==
    LET pairs == {p \in Dates \X Dates : p[1] <= p[2]}
    IN  {<< >>} \cup {<<p>> : p \in pairs} \cup {<<p, q>> : p \in pairs, q \in pairs}

\* the history data of an exporter in a settings file
ImportedHistories == HistoryDataOver({<<1, "am">>}, {10})

\* JsonSettingsManager.save_settings_data for the exporter of the model,
\* storage_manage.py 473-491: the history data and the downloaded intervals of
\* the file are written if they were selected, in one transaction; a violated
\* unique constraint raises IntegrityError and the transaction leaves nothing.
save_settings_data(history_data, downloaded_intervals, history_selected, intervals_selected) ==
    \E before \in {[intervals |-> intervals, history |-> history, nextId |-> nextId]} :
    \E after \in {[(IF intervals_selected
                    THEN update_or_create_downloaded_intervals(before, downloaded_intervals)
                    ELSE before)
                   EXCEPT !.history = IF history_selected
                                      THEN update_or_create_history_data(@, history_data)
                                      ELSE @]} :
        /\ after.nextId <= MaxId + 1
        /\ IF unique_exporter_date_from(after.intervals)
           THEN /\ intervals' = after.intervals
                /\ history' = after.history
                /\ nextId' = after.nextId
           ELSE UNCHANGED <<intervals, history, nextId>>
        /\ UNCHANGED <<txn, start, site>>

\* the downloads of the views and the imports of settings files
NextImport ==
    \/ \E c \in DownloadCalls : save_history_data(c[1], c[2], c[3])
    \/ \E history_data \in ImportedHistories, downloaded_intervals \in ImportedIntervals,
          history_selected \in BOOLEAN, intervals_selected \in BOOLEAN :
            /\ history_selected \/ intervals_selected
            /\ save_settings_data(history_data, downloaded_intervals,
                                  history_selected, intervals_selected)

SpecImport == Init /\ [][NextImport]_vars

\* ------------------------------------------- the exporter as the views see it
\* The calendar of the model lies somewhere in the real one: day d of the model
\* is the day with the proleptic ordinal epoch + d, for an epoch of any weekday.
Epochs == 738000..738006
\* the days the clock can show: from the first day of the calendar
\* to some days after the last
Todays == 1..(MaxDate + 4)

\* (mutant: > 0 for > 1 at line 164)
has_downloaded_intervals(rows) == Cardinality(rows) > 0

\* line 164: len(downloaded_intervals) > 1, one list item for every row
has_gaps(rows) == Cardinality(rows) > 1

\* datetime.date.min.toordinal()
date_min == 1

\* datetime.date.isoweekday of the day with that ordinal: 1 is Monday, 7 is Sunday
isoweekday(ordinal) == ((ordinal - 1) % 7) + 1

\* (mutant: Sunday treated like a working day)
last_working_day_after_saturday(today) ==
    IF isoweekday(today) = 1 THEN today - 3 ELSE today - 1

\* lines 166-172; today is an ordinal
last_working_day(today) ==
    IF isoweekday(today) = 1
    THEN today - 3
    ELSE IF isoweekday(today) = 7
         THEN today - 2
         ELSE today - 1

\* line 165: max((dt for _, dt in downloaded_intervals), default=datetime.date.min)
last_downloaded_date(rows, epoch) ==
    Max({epoch + it.date_to : it \in rows} \cup {date_min})

\* line 173, with datetime.date.today() = day `today` of the model's calendar
is_actual(rows, epoch, today) ==
    last_downloaded_date(rows, epoch) >= last_working_day(epoch + today)

\* ------------------------------------------------- the history data cache
\* StaticDataCache._history_data, a dict of the class that every instance
\* changes in place. Its key is (exporter.id, moment_from, moment_to); the model
\* has one exporter and keeps <<moment_from, moment_to>>.
\* cachers.py 217, 231: self._history_data[cache_key] = history_data
download_history_data(cached, cache_key, history_data) ==
    [k \in DOMAIN cached \cup {cache_key} |-> IF k = cache_key THEN history_data ELSE cached[k]]

\* cachers.py 243-244: self._history_data.get(cache_key, None)
get_history_data(cached, cache_key) ==
    IF cache_key \in DOMAIN cached THEN Some(cached[cache_key]) ELSE None

\* cachers.py 253-255
drop_history_data_from_cache(cached, cache_key) ==
    [k \in DOMAIN cached \ {cache_key} |-> cached[k]]

\* ------------------------------------------------------------- the clock
\* the days the clock of the server shows, one after another
Clock == 1..(MaxDate + 1)

\* a day passes
Tick ==
    /\ now + 1 \in Clock
    /\ now' = now + 1
    /\ UNCHANGED <<intervals, history, nextId, txn, start, cache, registered, static, session>>

\* --------------------------------------------- actualizing the history data
\* (mutant: the view asks for today only)
actualize_today(rows, today) ==
    IF rows # {} /\ Max({it.date_to : it \in rows}) >= today
    THEN None
    ELSE Some(<<today, today>>)

\* sources_actuality.py 67-94: the dates of moment_from and moment_to the view
\* asks for, None when the history data is already actual
actualize_range(rows, today) ==
    IF rows = {}
    THEN Some(<<(today - 1 - 1) + 1, today>>)
    ELSE IF Max({it.date_to : it \in rows}) >= today
         THEN None
         ELSE Some(<<Max({it.date_to : it \in rows}) + 1, today>>)

\* what a download for the dates date_from..date_to can return
Downloaded(date_from, date_to) ==
    HistoryDataOver({m \in Moments : date_from <= MomentDate(m) /\ MomentDate(m) <= date_to}, {10})

\* ActualizeHistoryRedirectView.get for the exporter of the model, lines 58-119:
\* nothing if the history data is actual; else the download (which puts its
\* result into the history data cache), the save, and the drop from the cache.
ActualizeHistory ==
    \E range \in {actualize_range(intervals, now)} :
        IF range = None
        THEN UNCHANGED vars
        ELSE \E r \in range : \E history_data \in Downloaded(r[1], r[2]) :
             \E after \in {saved(intervals, history, nextId, history_data, r[1], r[2])} :
                /\ after.nextId <= MaxId + 1
                /\ intervals' = after.intervals
                /\ history' = after.history
                /\ nextId' = after.nextId
                /\ static' = [static EXCEPT !.history_data =
                        drop_history_data_from_cache(
                            download_history_data(@, r, history_data), r)]
                /\ UNCHANGED <<txn, start, now, cache, registered, session>>

\* the history data is actualized, the download form saves, days pass
NextActualize ==
    \/ ActualizeHistory
    \/ \E c \in DownloadCalls : save_history_data(c[1], c[2], c[3])
    \/ Tick

SpecActualize == Init /\ [][NextActualize]_vars

\* ------------------------------------------------------------ the JSON API
\* An instant is a date and a time of day, in order: 0 is midnight
\* (datetime.time.min), 1 and 2 are the times "am" and "pm" of a stored moment.
TimeOfDay(m) == IF m[2] = "am" THEN 1 ELSE 2
Stamp(date, time) == 3 * date + time
StampDate(stamp) == stamp \div 3

\* api.py 32-33, 112-113: datetime.datetime.combine(date, datetime.time.min)
window_moment(date) == Stamp(date, 0)

\* computing.build_sorted_history_data, the instants of the points: those of the
\* moments with intraday, their dates without (the later point of a day wins)
keyed_points(points, intraday) ==
    LET key(m) == IF intraday THEN Stamp(m[1], TimeOfDay(m)) ELSE Stamp(m[1], 0)
    IN  [s \in {key(m) : m \in DOMAIN points} |->
            points[CHOOSE m \in DOMAIN points :
                      /\ key(m) = s
                      /\ \A o \in DOMAIN points : key(o) = s => TimeOfDay(o) <= TimeOfDay(m)]]

\* the value a series has reached at the instant s: that of its latest instant up to s
has_carried(series, s) == \E k \in DOMAIN series : k <= s
carried(series, s) == series[Max({k \in DOMAIN series : k <= s})]

\* computing.build_sorted_history_data: the series on the window, as a function
\* of the instants it emits (ascending)
build_sorted_history_data(points, moment_from, moment_to, interval_data_type, intraday) ==
    LET keyed == keyed_points(points, intraday)
        interior == {s \in DOMAIN keyed : moment_from <= s /\ s <= moment_to}
        days == {Stamp(d, 0) : d \in StampDate(moment_from)..StampDate(moment_to)}
        emitted ==
            CASE interval_data_type = "ONLY_INTERIOR_VALUES" -> interior
              [] interval_data_type = "ALLOW_PRECEDING_VALUE" ->
                    interior \cup {k \in DOMAIN keyed :
                                     /\ k <= moment_from
                                     /\ \A o \in DOMAIN keyed : o <= moment_from => o <= k}
              [] interval_data_type = "EVERY_DAY_VALUES" ->
                    interior \cup {s \in days : /\ moment_from <= s /\ s <= moment_to
                                                /\ has_carried(keyed, s)}
    IN  IF moment_from > moment_to
        THEN << >>
        ELSE [s \in emitted |-> carried(keyed, s)]

ComposeTypes == {"add", "subtract", "multiply", "divide"}

\* (mutant: the handler hands the exception on)
reraising_error_handler(ex, compose_operation_type, moment, left_value, right_value) ==
    [raised |-> TRUE, value |-> 0]

\* api.py 165-172, _return_stub_error_handler: returns decimal.Decimal(0)
return_stub_error_handler(ex, compose_operation_type, moment, left_value, right_value) ==
    [raised |-> FALSE, value |-> 0]

\* the operator on two values; the division raises on a zero divisor (the values
\* of the model divide without a remainder)
compose_value(compose_type, moment, left_value, right_value) ==
    IF compose_type = "divide" /\ right_value = 0
    THEN return_stub_error_handler("DivisionByZero", compose_type, moment, left_value, right_value)
    ELSE [raised |-> FALSE,
          value |-> CASE compose_type = "add" -> left_value + right_value
                      [] compose_type = "subtract" -> left_value - right_value
                      [] compose_type = "multiply" -> left_value * right_value
                      [] compose_type = "divide" -> left_value \div right_value]

\* computing.build_composed_sorted_history_data with
\* compose_error_handler=_return_stub_error_handler (api.py 174-183): one value
\* for every instant of either series at which both series have a value
build_composed_sorted_history_data(left, right, compose_type, moment_from, moment_to, interval_data_type, intraday) ==
    LET l == build_sorted_history_data(left, moment_from, moment_to, interval_data_type, intraday)
        r == build_sorted_history_data(right, moment_from, moment_to, interval_data_type, intraday)
        moments == {s \in DOMAIN l \cup DOMAIN r : has_carried(l, s) /\ has_carried(r, s)}
    IN  [s \in moments |-> compose_value(compose_type, s, carried(l, s), carried(r, s))]

\* request.GET.get(name, 'no') and str.lower()
query_param(query, name) ==
    LET given == IF name \in DOMAIN query THEN query[name] ELSE "no"
    IN  CASE given = "Yes" -> "yes"
          [] OTHER -> given

\* the query strings of the model: each parameter absent or one of three values
Queries == HistoryDataOver({"intraday", "fill_gaps"}, {"Yes", "no", "maybe"})

\* 'yes' and 'no' are the only values accepted (api.py 42-50, 123-131)
bad_query(query) ==
    \/ query_param(query, "intraday") \notin {"yes", "no"}
    \/ query_param(query, "fill_gaps") \notin {"yes", "no"}

\* strftime with moment_format if intraday, else with date_format
strftime(moment, intraday) ==
    IF intraday THEN moment ELSE Stamp(StampDate(moment), 0)

\* (mutant: the comparison of the dates at api.py 69 dropped)
no_history_data(date_from, date_to, history_data) ==
    history_data = << >>

\* api.py 69: date_from > date_to or not history_data
empty_history_window(date_from, date_to, history_data) ==
    date_from > date_to \/ history_data = << >>

\* JsonHistoryDataView.render_to_response; exporters are the exporters in the
\* database, a function from their unique codes to their history data
history_response(exporters, code, date_from, date_to, query) ==
    LET intraday == query_param(query, "intraday") = "yes"
        fill_gaps == query_param(query, "fill_gaps") = "yes"
    IN  IF bad_query(query)
        THEN [status |-> 400, data |-> {}, resampled |-> FALSE]
        ELSE IF code \notin DOMAIN exporters
        THEN [status |-> 404, data |-> {}, resampled |-> FALSE]
        ELSE IF empty_history_window(date_from, date_to, exporters[code])
        THEN [status |-> 200, data |-> {}, resampled |-> FALSE]
        ELSE LET result_data == build_sorted_history_data(
                    exporters[code], window_moment(date_from), window_moment(date_to),
                    IF fill_gaps THEN "EVERY_DAY_VALUES" ELSE "ONLY_INTERIOR_VALUES",
                    intraday)
             IN  [status |-> 200,
                  data |-> {[moment |-> strftime(s, intraday), value |-> result_data[s]] :
                                s \in DOMAIN result_data},
                  resampled |-> TRUE]

\* api.py 157
empty_compose_window(date_from, date_to) == date_from > date_to

\* JsonComposeDataView.render_to_response; an exception that leaves the view is
\* answered with the status 500
compose_response(exporters, code1, compose_type, code2, date_from, date_to, query) ==
    LET intraday == query_param(query, "intraday") = "yes"
        fill_gaps == query_param(query, "fill_gaps") = "yes"
    IN  IF bad_query(query)
        THEN [status |-> 400, data |-> {}, composed |-> FALSE]
        ELSE IF code1 \notin DOMAIN exporters \/ code2 \notin DOMAIN exporters
        THEN [status |-> 404, data |-> {}, composed |-> FALSE]
        ELSE IF empty_compose_window(date_from, date_to)
        THEN [status |-> 200, data |-> {}, composed |-> FALSE]
        ELSE LET composed_data == build_composed_sorted_history_data(
                    exporters[code1], exporters[code2], compose_type,
                    window_moment(date_from), window_moment(date_to),
                    IF fill_gaps THEN "EVERY_DAY_VALUES" ELSE "ALLOW_PRECEDING_VALUE",
                    intraday)
             IN  IF \E s \in DOMAIN composed_data : composed_data[s].raised
                 THEN [status |-> 500, data |-> {}, composed |-> TRUE]
                 ELSE [status |-> 200,
                       data |-> {[moment |-> strftime(s, intraday), value |-> composed_data[s].value] :
                                    s \in DOMAIN composed_data},
                       composed |-> TRUE]

\* The calls that store the values the API composes: 0 and 5.
ApiCalls ==
    {c \in HistoryDataOver(PointMoments, {0, 5}) \X Dates \X Dates : c[2] <= c[3]}

NextApi ==
    \E c \in ApiCalls : save_history_data(c[1], c[2], c[3])

SpecApi == Init /\ [][NextApi]_vars

\* the exporters of the database: the one of the model under the code "stored",
\* and another one with the history data `other` under the code "other"
Exporters(other) ==
    [code \in {"stored", "other"} |-> IF code = "stored" THEN history ELSE other]

\* the history data of the other exporter
OtherHistories == HistoryDataOver({<<1, "pm">>, <<MaxDate, "am">>}, {10})

\* ------------------------------------------ the cache of downloaded pages
\* DjangoDbCacher keeps one CachedItem per downloaded page. The key of a row is
\* what _build_key makes of (url, parameters, headers); the result is a string.
Keys == {"k1", "k2"}
\* the strings a reviver can return
Results == {"a", "b"}

\* _expiry = datetime.timedelta(days=1): a day of the clock
expiry == 1

\* DjangoExpiryCalculator, with timezone.now() = clock
is_expired(clock, expiry_moment) == clock > expiry_moment
get_expiry_moment(delta, start_from) == start_from + delta
get_revive_moment(clock) == clock

\* UniqueConstraint(fields=['url', 'parameters', 'headers'])
UQ_url_param_headers(rows) ==
    \A a, b \in rows : a.key = b.key => a = b

\* cachers.py 48-49: return self._queryset().exists()
is_empty(rows) == rows # {}

\* cachers.py 153-156: self._queryset().all().delete()
full_clear(rows) == {}

\* cachers.py 74-93, one transaction: the expired rows are deleted, the others
\* get their expiry_moment from their revive_moment
clean(rows, clock) ==
    {[it EXCEPT !.expiry_moment = get_expiry_moment(expiry, it.revive_moment)] :
        it \in {row \in rows :
                    ~(\/ is_expired(clock, row.expiry_moment)
                      \/ is_expired(clock, get_expiry_moment(expiry, row.revive_moment)))}}

\* retrieve(url, parameters, headers, reviver) of the request r, statement by
\* statement. Line 106: self.clean()
CleanCache(r, key) ==
    /\ txn[r].pc \in {"idle", "returned", "raised"}
    /\ cache' = clean(cache, now)
    /\ txn' = [txn EXCEPT ![r] = [pc |-> "cleaned", call |-> key, read |-> None,
                                  got_from_cache |-> FALSE, result |-> None,
                                  revived |-> 0, created |-> None]]
    /\ UNCHANGED <<intervals, history, nextId, start, now, registered, static, session>>

\* lines 112-120: the get by the key; read is cached_item
GetCachedItem(r) ==
    /\ txn[r].pc = "cleaned"
    /\ \E found \in {{it \in cache : it.key = txn[r].call}} :
        txn' = [txn EXCEPT ![r].pc = "got",
                           ![r].read = found,
                           ![r].got_from_cache = (found # None),
                           ![r].result = {it.result : it \in found}]
    /\ UNCHANGED <<intervals, history, nextId, start, site>>

\* lines 123-136: need_update; if it is set the reviver is called and the new
\* row is made ready, if not the call returns at line 139
ReviveOrReturn(r) ==
    /\ txn[r].pc = "got"
    /\ IF txn[r].read = None \/ \E it \in txn[r].read : is_expired(now, it.expiry_moment)
       THEN \E result \in Results :
                txn' = [txn EXCEPT
                    ![r].pc = "revived",
                    ![r].result = Some(result),
                    ![r].revived = @ + 1,
                    ![r].created = Some([key |-> txn[r].call,
                                         result |-> result,
                                         revive_moment |-> get_revive_moment(now),
                                         expiry_moment |-> get_expiry_moment(expiry, now)])]
       ELSE txn' = [txn EXCEPT ![r].pc = "returned"]
    /\ UNCHANGED <<intervals, history, nextId, start, site>>

\* lines 137-139: create; a row with the key in the table makes the insert
\* violate the unique constraint, and IntegrityError leaves retrieve
CreateCachedItem(r) ==
    /\ txn[r].pc = "revived"
    /\ IF UQ_url_param_headers(cache \cup txn[r].created)
       THEN /\ cache' = cache \cup txn[r].created
            /\ txn' = [txn EXCEPT ![r].pc = "returned"]
       ELSE /\ cache' = cache
            /\ txn' = [txn EXCEPT ![r].pc = "raised"]
    /\ UNCHANGED <<intervals, history, nextId, start, now, registered, static, session>>

FullClear ==
    /\ cache' = full_clear(cache)
    /\ UNCHANGED <<intervals, history, nextId, txn, start, now, registered, static, session>>

NextCache ==
    \/ \E r \in Requests, key \in Keys : CleanCache(r, key)
    \/ \E r \in Requests : GetCachedItem(r)
    \/ \E r \in Requests : ReviveOrReturn(r)
    \/ \E r \in Requests : CreateCachedItem(r)
    \/ FullClear
    \/ Tick

SpecCache == Init /\ [][NextCache]_vars

\* ------------------------------------------ the registries of the exporters
\* collections.OrderedDict(enumerate(registries, start=1)): the keys 1, 2, ...
\* in this order, each with its registry; that is the sequence itself
OrderedDict_enumerate(registries) == registries

\* one more exporter is registered with sane_finances while the server runs
RegisterExporter(registry) ==
    /\ \A i \in DOMAIN registered : registered[i] # registry
    /\ registered' = Append(registered, registry)
    /\ UNCHANGED <<intervals, history, nextId, txn, start, now, cache, static, session>>

\* StaticDataCache(): the view of the request r makes an instance; an instance
\* starts without attributes of its own (cachers.py 168-169 sets the logger only)
NewStaticDataCache(r) ==
    /\ static' = [static EXCEPT !.instances[r] = None]
    /\ UNCHANGED <<intervals, history, nextId, txn, start, now, cache, registered, session>>

\* cachers.py 171-181 on the instance of the request r. Reading
\* self._available_exporters_registries gives the attribute of the instance if
\* it has one and that of the class if not; the assignment of lines 177-178
\* sets the attribute of the instance. read is the dictionary returned.
get_available_exporters_registries(r) ==
    /\ \E attribute \in {IF static.instances[r] # None
                         THEN static.instances[r]
                         ELSE static.available_exporters_registries} :
        IF attribute = None
        THEN /\ static' = [static EXCEPT
                    !.instances[r] = Some(OrderedDict_enumerate(registered))]
             /\ txn' = [txn EXCEPT ![r] = [pc |-> "registries", call |-> NoCall,
                                           read |-> Some(OrderedDict_enumerate(registered))]]
        ELSE /\ static' = static
             /\ txn' = [txn EXCEPT ![r] = [pc |-> "registries", call |-> NoCall,
                                           read |-> attribute]]
    /\ UNCHANGED <<intervals, history, nextId, start, now, cache, registered, session>>

NextRegistries ==
    \/ \E registry \in Registries : RegisterExporter(registry)
    \/ \E r \in Requests : NewStaticDataCache(r)
    \/ \E r \in Requests : get_available_exporters_registries(r)

SpecRegistries == Init /\ [][NextRegistries]_vars

\* -------------------------------------------- the download form of an exporter
\* The form of the model: moment_from and moment_to are the midnights of the
\* first two dates, the points are those of these dates with one of two values.
FormDates == 1..2
FormRanges == FormDates \X FormDates
FormMoments == {m \in Moments : MomentDate(m) \in FormDates}
FormDownloaded(moment_from, moment_to) ==
    HistoryDataOver({m \in FormMoments : moment_from <= MomentDate(m) /\ MomentDate(m) <= moment_to},
                    {10, 20})

\* exporter_detail.py 237-280 and 194-235: the choices of the history field,
\* made from the session info and the cached download: the moments downloaded
\* and the stored moments from moment_from to moment_to ("Missed value")
history_field_choices(info, cached, stored) ==
    UNION {IF get_history_data(cached, range) = None
           THEN {}
           ELSE DOMAIN cached[range] \cup
                    {m \in DOMAIN stored :
                        /\ window_moment(range[1]) <= Stamp(m[1], TimeOfDay(m))
                        /\ Stamp(m[1], TimeOfDay(m)) <= window_moment(range[2])} :
           range \in info}

\* (mutant: lines 435-441 left out, the keys found are saved)
no_not_found_keys(history_keys, cached_history_data) == {}

\* lines 427-433
not_found_keys(history_keys, cached_history_data) ==
    history_keys \ DOMAIN cached_history_data

\* lines 428-433: history_data_to_save
history_data_to_save(history_keys, cached_history_data) ==
    [m \in history_keys \cap DOMAIN cached_history_data |-> cached_history_data[m]]

\* ExportersDetailView.form_valid for '_download', lines 384-402, with the
\* download it makes: the table, the history data cache and the session info
\* after the request, and how the request ended
download_posted(store, cached, info, moment_from, moment_to, downloaded) ==
    IF moment_from > moment_to
    THEN [store |-> store, history_data |-> cached, session |-> info, ended |-> "form_invalid"]
    ELSE [store |-> store,
          history_data |-> download_history_data(cached, <<moment_from, moment_to>>, downloaded),
          session |-> Some(<<moment_from, moment_to>>),
          ended |-> "downloaded"]

\* The same for '_save', lines 404-454. The form is valid only if every choice
\* posted is a choice of the history field (forms.MultipleChoiceField, line 35).
save_posted(store, cached, info, moment_from, moment_to, history_choices) ==
    LET left(ended) == [store |-> store, history_data |-> cached, session |-> info, ended |-> ended]
        cache_key == <<moment_from, moment_to>>
    IN  IF ~(history_choices \subseteq history_field_choices(info, cached, store.history))
        THEN left("form_invalid")
        ELSE IF history_choices = {}
        THEN left("nothing to save")
        ELSE IF get_history_data(cached, cache_key) = None
        THEN left("form_invalid")
        ELSE IF not_found_keys(history_choices, cached[cache_key]) # {}
        THEN left("form_invalid")
        ELSE [store |-> saved(store.intervals, store.history, store.nextId,
                              history_data_to_save(history_choices, cached[cache_key]),
                              moment_from, moment_to),
              history_data |-> drop_history_data_from_cache(cached, cache_key),
              session |-> None,
              ended |-> "saved"]

\* a POST of the download form
Posted(after) ==
    /\ after.store.nextId <= MaxId + 1
    /\ intervals' = after.store.intervals
    /\ history' = after.store.history
    /\ nextId' = after.store.nextId
    /\ static' = [static EXCEPT !.history_data = after.history_data]
    /\ session' = after.session
    /\ UNCHANGED <<txn, start, now, cache, registered>>

PostDownload(moment_from, moment_to, downloaded) ==
    Posted(download_posted([intervals |-> intervals, history |-> history, nextId |-> nextId],
                           static.history_data, session, moment_from, moment_to, downloaded))

PostSave(moment_from, moment_to, history_choices) ==
    Posted(save_posted([intervals |-> intervals, history |-> history, nextId |-> nextId],
                       static.history_data, session, moment_from, moment_to, history_choices))

NextForm ==
    \/ \E range \in FormRanges : \E downloaded \in FormDownloaded(range[1], range[2]) :
            PostDownload(range[1], range[2], downloaded)
    \/ \E range \in FormRanges, history_choices \in SUBSET FormMoments :
            PostSave(range[1], range[2], history_choices)

SpecForm == Init /\ [][NextForm]_vars

\* ------------------------------------------------- vocabulary of the claims
\* the store after the call c = <<history_data, date_from, date_to>> on the current store
Call(c) == saved(intervals, history, nextId, c[1], c[2], c[3])

PointDates(c) == {m[1] : m \in DOMAIN c[1]}
MinPointDate(c) == Min(PointDates(c))
MaxPointDate(c) == Max(PointDates(c))
\* the claimed range, widened to the points
ClaimedFrom(c) == Min(PointDates(c) \cup {c[2]})
ClaimedTo(c) == Max(PointDates(c) \cup {c[3]})

Covers(it, d) == it.date_from <= d /\ d <= it.date_to
Covered(rows, d) == \E it \in rows : Covers(it, d)
\* the intervals that overlap or touch the claimed range
Touched(c) ==
    {it \in intervals : it.date_to + 1 >= ClaimedFrom(c) /\ ClaimedTo(c) + 1 >= it.date_from}
LeftPierced(c) == Covered(intervals, ClaimedFrom(c) - 1)
RightPierced(c) == Covered(intervals, ClaimedTo(c) + 1)
Ids(rows) == {it.id : it \in rows}
Ranges(rows) == {<<it.date_from, it.date_to>> : it \in rows}
Survivors(c) == {it \in Call(c).intervals : it.id \in Ids(Touched(c))}
\* the call is one the reconciler skips: no points, and not both edges pierced
Skipped(c) == c[1] = << >> /\ ~(LeftPierced(c) /\ RightPierced(c))
\* the bounds of a merge that proceeds
MergedFrom(c) ==
    IF LeftPierced(c) THEN Min({it.date_from : it \in Touched(c)}) ELSE MinPointDate(c)
MergedTo(c) ==
    IF RightPierced(c) THEN Max({it.date_to : it \in Touched(c)}) ELSE MaxPointDate(c)

\* ------------------------------------------------------------------ claims
\* C1: no two distinct intervals of the exporter overlap or touch: of two
\* intervals the earlier one ends at least two days before the later one starts.
C1_NonOverlap ==
    \A a, b \in intervals :
        (a # b /\ a.date_from <= b.date_from) => a.date_to + 1 < b.date_from

\* two intervals with a gap between them, one of them longer than a day
C1_Witness ==
    /\ Cardinality(intervals) = 2
    /\ \E it \in intervals : it.date_from < it.date_to

\* C2: both bounds of every stored interval are the date of a stored history point.
C2_BoundsHavePoints ==
    \A it \in intervals :
        /\ \E m \in DOMAIN history : MomentDate(m) = it.date_from
        /\ \E m \in DOMAIN history : MomentDate(m) = it.date_to

\* an interval that was stretched over a date without a point
C2_Witness ==
    \E it \in intervals : \E d \in Dates :
        /\ it.date_from < d /\ d < it.date_to
        /\ \A m \in DOMAIN history : MomentDate(m) # d

\* C3: a second call with the identical input changes neither the intervals
\* (bounds and identities) nor the point store left by the first call.
C3_Idempotent ==
    \A c \in Calls : \A once \in {Call(c)} :
        \A twice \in {saved(once.intervals, once.history, once.nextId, c[1], c[2], c[3])} :
            twice.intervals = once.intervals /\ twice.history = once.history

\* a call that merges two stored intervals into one (and would be repeated)
C3_Witness ==
    \E c \in Calls :
        /\ c[1] # << >>
        /\ Cardinality(Call(c).intervals) < Cardinality(intervals)

\* C4: a call never uncovers a date: every date inside some interval before the
\* call is inside some interval after it (edges are extended, never pulled in).
C4_CoverageKept ==
    [][\A d \in Dates : Covered(intervals, d) => Covered(intervals', d)]_vars

\* C5: on a merge with points, the survivor starts at min_point_date if the left
\* edge is not pierced and at the start of the earliest affected interval if it
\* is; it ends at max_point_date if the right edge is not pierced and at the end
\* of the latest affected interval if it is.
C5_MergedBounds ==
    \A c \in Calls :
        (c[1] # << >> /\ Touched(c) # {}) =>
            Ranges(Survivors(c)) =
                {<<IF LeftPierced(c)
                   THEN Min({it.date_from : it \in Touched(c)})
                   ELSE MinPointDate(c),
                   IF RightPierced(c)
                   THEN Max({it.date_to : it \in Touched(c)})
                   ELSE MaxPointDate(c)>>}

\* a merge whose left edge sticks out with no point on it and whose right edge is pierced
C5_Witness ==
    \E c \in Calls :
        /\ c[1] # << >> /\ Touched(c) # {}
        /\ ~LeftPierced(c) /\ RightPierced(c)
        /\ c[2] < MinPointDate(c)
        /\ Call(c).intervals # intervals

\* C6: a call without points whose buffered range touches no interval changes
\* nothing, and no call without points increases the number of intervals.
C6_EmptyProbe ==
    \A c \in Calls :
        c[1] = << >> =>
            /\ Touched(c) = {} =>
                  Call(c) = [intervals |-> intervals, history |-> history, nextId |-> nextId]
            /\ Cardinality(Call(c).intervals) <= Cardinality(intervals)

\* a store with an interval and an empty probe that touches none
C6_Witness ==
    /\ intervals # {}
    /\ \E c \in Calls : c[1] = << >> /\ Touched(c) = {}

\* C7: an empty probe over exactly the gap between two neighbouring intervals
\* replaces the two by one interval from the start of the first to the end of the
\* second, and changes no other interval.
C7_MergeByEmptyProbe ==
    \A a, b \in intervals :
        (/\ a.date_to + 1 < b.date_from
         /\ ~\E it \in intervals : a.date_to < it.date_from /\ it.date_from < b.date_from) =>
            LET after == saved(intervals, history, nextId,
                               << >>, a.date_to + 1, b.date_from - 1).intervals
            IN  /\ after \ intervals \in
                      {{[id |-> a.id, date_from |-> a.date_from, date_to |-> b.date_to]},
                       {[id |-> b.id, date_from |-> a.date_from, date_to |-> b.date_to]}}
                /\ intervals \ after = {a, b}

\* two neighbouring intervals with a gap between them
C7_Witness ==
    \E a, b \in intervals : a.date_to + 1 < b.date_from

\* C8: a call with points that touches no interval adds exactly one interval,
\* [min_point_date, max_point_date], whatever the claimed range, and keeps the rest.
C8_NewTerritory ==
    \A c \in Calls :
        (c[1] # << >> /\ Touched(c) = {}) =>
            /\ intervals \subseteq Call(c).intervals
            /\ Cardinality(Call(c).intervals \ intervals) = 1
            /\ \A it \in Call(c).intervals \ intervals :
                  it.date_from = MinPointDate(c) /\ it.date_to = MaxPointDate(c)

\* a store with an interval, and a call in new territory that claims more than its points
C8_Witness ==
    /\ intervals # {}
    /\ \E c \in Calls :
        /\ c[1] # << >> /\ Touched(c) = {}
        /\ c[2] < MinPointDate(c) \/ MaxPointDate(c) < c[3]

\* C9: after a call every moment of its history data is stored with the value of
\* the call, every other stored moment keeps its value, and no stored moment is
\* removed.
C9_PointUpsert ==
    \A c \in PointCalls :
        LET after == Call(c).history
        IN  /\ DOMAIN after = DOMAIN history \cup DOMAIN c[1]
            /\ \A m \in DOMAIN c[1] : after[m] = c[1][m]
            /\ \A m \in DOMAIN history \ DOMAIN c[1] : after[m] = history[m]

\* a call that overwrites the value of a stored moment and leaves another stored
\* moment of the same date alone
C9_Witness ==
    \E c \in PointCalls : \E m \in DOMAIN c[1] \cap DOMAIN history :
        /\ c[1][m] # history[m]
        /\ \E o \in DOMAIN history \ DOMAIN c[1] : MomentDate(o) = MomentDate(m)

\* the intervals after the calls c then d, one after the other, on the rows `from`
Serial(from, c, d) ==
    LET first == saved(from, << >>, MaxId + 1, c[1], c[2], c[3]).intervals
    IN  saved(first, << >>, MaxId + 2, d[1], d[2], d[3]).intervals

\* C10: when two concurrent calls have both committed, the intervals are those of
\* the two calls run one after the other in some order, and no two of them
\* overlap or touch.
C10_Serialized ==
    (\A r \in Requests : txn[r].pc = "done") =>
        /\ Ranges(intervals) \in {Ranges(Serial(start, txn["r1"].call, txn["r2"].call)),
                                  Ranges(Serial(start, txn["r2"].call, txn["r1"].call))}
        /\ C1_NonOverlap

\* C11: the interval changes and the point upserts of one call reach the store
\* as one unit: the store changes only when the call completes, and then to the
\* result of the whole call; a call that fails at any step leaves the store as
\* it was before the call.
C11_Atomic ==
    [][/\ (intervals' # intervals \/ history' # history) =>
            /\ txn'["r1"].pc = "committed"
            /\ \E whole \in {saved(intervals, history, nextId, txn["r1"].call[1],
                                   txn["r1"].call[2], txn["r1"].call[3])} :
                    intervals' = whole.intervals /\ history' = whole.history
       /\ txn'["r1"].pc = "failed" => (intervals' = intervals /\ history' = history)
      ]_vars

\* a call that failed after it had merged intervals and upserted a point
C11_Witness ==
    /\ txn["r1"].pc = "failed"
    /\ Cardinality(txn["r1"].work.intervals) < Cardinality(intervals)
    /\ txn["r1"].work.history # history
    /\ txn["r1"].pending # {}

\* C12: a call with empty points and claimed_from > claimed_to fails (raises)
\* and leaves the interval set and the point store unchanged.
C12_FailFast ==
    \A c \in InvertedProbes :
        /\ raises(intervals, nextId, c[1], c[2], c[3])
        /\ Call(c).intervals = intervals
        /\ Call(c).history = history

\* C13: for every today and every interval set, is_actual is true exactly when
\* the exporter has intervals and the latest date_to among them is not before
\* the last business day: today - 3 on a Monday, today - 2 on a Sunday,
\* today - 1 on any other day.
C13_Actuality ==
    \A epoch \in Epochs : \A today \in Todays :
        is_actual(intervals, epoch, today) <=>
            /\ intervals # {}
            /\ \E it \in intervals :
                   /\ \A other \in intervals : other.date_to <= it.date_to
                   /\ \/ isoweekday(epoch + today) = 1 /\ it.date_to >= today - 3
                      \/ isoweekday(epoch + today) = 7 /\ it.date_to >= today - 2
                      \/ isoweekday(epoch + today) \in 2..6 /\ it.date_to >= today - 1

\* two intervals, the later one ending on a Friday: actual on the Sunday after,
\* an earlier interval ending on the Thursday would not be
C13_Witness ==
    /\ Cardinality(intervals) = 2
    /\ \E epoch \in Epochs : \E today \in Todays :
        /\ isoweekday(epoch + today) = 7
        /\ Max({it.date_to : it \in intervals}) = today - 2
        /\ is_actual(intervals, epoch, today)

C15_DivideByZero ==
    \A other \in OtherHistories : \A query \in Queries :
    \A date_from, date_to \in Dates : \A code1 \in {"stored", "other"} :
        (~bad_query(query) /\ date_from <= date_to) =>
            LET intraday == query_param(query, "intraday") = "yes"
                mode == IF query_param(query, "fill_gaps") = "yes"
                        THEN "EVERY_DAY_VALUES" ELSE "ALLOW_PRECEDING_VALUE"
                l == build_sorted_history_data(Exporters(other)[code1], window_moment(date_from),
                                               window_moment(date_to), mode, intraday)
                r == build_sorted_history_data(history, window_moment(date_from),
                                               window_moment(date_to), mode, intraday)
                response == compose_response(Exporters(other), code1, "divide", "stored",
                                             date_from, date_to, query)
            IN  /\ response.status = 200
                /\ \A s \in DOMAIN l \cup DOMAIN r :
                      (has_carried(l, s) /\ has_carried(r, s)) =>
                          [moment |-> strftime(s, intraday),
                           value |-> IF carried(r, s) = 0
                                     THEN 0
                                     ELSE carried(l, s) \div carried(r, s)] \in response.data

\* a division by a stored zero on the first day and by a stored 5 on the last:
\* the output has the stub value, then the quotient 2
C15_Witness ==
    \E h \in {[m \in {<<1, "am">>, <<MaxDate, "am">>} |-> 10]} :
        /\ <<1, "am">> \in DOMAIN history /\ history[<<1, "am">>] = 0
        /\ compose_response(Exporters(h), "other", "divide", "stored", 1, MaxDate, << >>).data
              = {[moment |-> Stamp(1, 0), value |-> 0], [moment |-> Stamp(MaxDate, 0), value |-> 2]}

\* C16: when at least one interval is affected, the call leaves the interval
\* set unchanged exactly when it has no points and not both edges are pierced,
\* or when it merges a single affected interval into the bounds that interval
\* already has; a skipped call leaves the point store unchanged too.
C16_SkipRule ==
    \A c \in Calls :
        Touched(c) # {} =>
            /\ (Call(c).intervals = intervals) <=>
                  \/ Skipped(c)
                  \/ \E it \in Touched(c) :
                        /\ Touched(c) = {it}
                        /\ it.date_from = MergedFrom(c)
                        /\ it.date_to = MergedTo(c)
            /\ Skipped(c) => Call(c).history = history

\* an empty probe from the gap between two intervals into the second one: its
\* left edge is pierced, its right edge is not, both intervals are affected
C16_Witness ==
    \E c \in Calls :
        /\ c[1] = << >>
        /\ Cardinality(Touched(c)) = 2
        /\ LeftPierced(c) /\ ~RightPierced(c)

\* C17: when a merge proceeds, the affected interval with the lowest id is the
\* only affected interval that remains, with the bounds [merged_from,
\* merged_to]; the other affected intervals are deleted, no interval id is
\* created, and every non-affected interval keeps its id and bounds.
C17_SurvivorAndFrame ==
    \A c \in Calls :
        (Touched(c) # {} /\ ~Skipped(c)) =>
            /\ Call(c).intervals =
                    (intervals \ Touched(c)) \cup
                        {[id |-> Min(Ids(Touched(c))),
                          date_from |-> MergedFrom(c),
                          date_to |-> MergedTo(c)]}
            /\ Call(c).nextId = nextId

\* a merge of two intervals of which the later one has the lower id
C17_Witness ==
    \E c \in Calls : \E a, b \in Touched(c) :
        /\ ~Skipped(c)
        /\ a.id < b.id /\ a.date_from > b.date_from

\* C18: after a call with non-empty points exactly one interval contains every
\* date from min_point_date to max_point_date, also when points lie before
\* claimed_from or after claimed_to.
C18_PointsCovered ==
    \A c \in Calls :
        c[1] # << >> =>
            Cardinality({it \in Call(c).intervals :
                            it.date_from <= MinPointDate(c) /\ MaxPointDate(c) <= it.date_to}) = 1

\* a store with an interval, and a call with a point before its claimed range
\* and a point after it
C18_Witness ==
    /\ intervals # {}
    /\ \E c \in Calls :
        /\ c[1] # << >>
        /\ MinPointDate(c) < c[2] /\ c[3] < MaxPointDate(c)
        /\ Call(c).intervals # intervals

\* C19: in every store reached by calls of save_history_data, has_gaps is true
\* exactly when some date strictly between the earliest date_from and the latest
\* date_to of the intervals is covered by no interval.
C19_GapsShown ==
    has_gaps(intervals) <=>
        /\ intervals # {}
        /\ \E d \in Dates :
               /\ Min({it.date_from : it \in intervals}) < d
               /\ d < Max({it.date_to : it \in intervals})
               /\ ~Covered(intervals, d)

\* two intervals a single day apart
C19_Witness ==
    \E a, b \in intervals : a.date_to + 2 = b.date_from

\* C20: the downloaded intervals change only by save_history_data: a step of
\* any other store operation (the import of settings in particular) leaves
\* them unchanged, and so no step outside the reconciler makes two intervals
\* overlap or touch.
C20_OnlyReconciler ==
    [][/\ intervals' # intervals =>
            \E c \in DownloadCalls :
                intervals' = Call(c).intervals /\ history' = Call(c).history
       /\ C1_NonOverlap => C1_NonOverlap'
      ]_vars

\* C23: every stored interval is well-formed, date_from <= date_to, after any
\* sequence of calls from no intervals, whatever the claimed ranges are.
C23_WellFormed ==
    \A it \in intervals : it.date_from <= it.date_to

\* an interval of a single day next to a longer one
C23_Witness ==
    \E a, b \in intervals : a.date_from = a.date_to /\ b.date_from < b.date_to

\* C24: no call violates the unique constraint on (exporter, date_from): no two
\* rows have the same date_from after the deletes of a merge, after the save of
\* its survivor, and after the creation of a new interval.
C24_UniqueDateFrom ==
    \A c \in AnyCalls :
        \A writes \in {interval_writes(intervals, c[1], c[2], c[3])} :
            \A rows \in {written_steps(intervals, nextId, writes)} :
                \A i \in DOMAIN rows : unique_exporter_date_from(rows[i])

\* a merge whose survivor takes the date_from of an interval the merge deletes
C24_Witness ==
    \E c \in AnyCalls :
        \A writes \in {interval_writes(intervals, c[1], c[2], c[3])} :
            \E gone \in intervals, kept \in writes.save :
                gone.id \in writes.delete /\ gone.date_from = kept.date_from

\* C30: for a claimed range with claimed_from <= claimed_to, every interval that
\* holds the day before the range or the day after it is an affected one, so
\* the pierce flags taken over the affected intervals only are those taken over
\* all intervals, and the call writes the same.
C30_PierceOverAffected ==
    \A c \in Calls :
        \A date_from \in {ClaimedFrom(c)}, date_to \in {ClaimedTo(c)} :
        \A affected \in {affected_intervals(intervals, date_from, date_to)} :
            /\ \A it \in intervals :
                    (Covers(it, date_from - 1) \/ Covers(it, date_to + 1)) => it \in affected
            /\ pierce_left(affected, date_from) = pierce_left(intervals, date_from)
            /\ pierce_right(affected, date_to) = pierce_right(intervals, date_to)
            /\ affected # {} =>
                    merge_writes(affected, affected, c[1], date_from, date_to)
                        = merge_writes(intervals, affected, c[1], date_from, date_to)

\* a pierced left edge in a store with an interval that is not affected
C30_Witness ==
    \E c \in Calls :
        /\ pierce_left(intervals, ClaimedFrom(c))
        /\ affected_intervals(intervals, ClaimedFrom(c), ClaimedTo(c)) \notin {{}, intervals}
        /\ Call(c).intervals # intervals

\* C25: the last business day of the actuality evaluator is, for every today, a
\* day from Monday to Friday before today, and the latest such day.
C25_LastBusinessDay ==
    \A epoch \in Epochs :
        \A today \in {epoch + now} : \A day \in {last_working_day(today)} :
            /\ isoweekday(day) \in 1..5
            /\ day < today
            /\ \A between \in (day + 1)..(today - 1) : isoweekday(between) \notin 1..5

\* the clock shows a Sunday: the last business day is the Friday two days before
C25_Witness ==
    /\ isoweekday(738000 + now) = 7
    /\ isoweekday(last_working_day(738000 + now)) = 5
    /\ last_working_day(738000 + now) = 738000 + now - 2

C21_SameRegistries ==
    \A r, q \in Requests :
        (txn[r].pc = "registries" /\ txn[q].pc = "registries") => txn[r].read = txn[q].read

\* C22: a retrieve that finds an item under its key returns the stored string
\* with got_from_cache true and does not call the reviver; one that finds none
\* calls the reviver once, stores its result under the key and returns it with
\* got_from_cache false; got_from_cache is true exactly when the reviver was
\* not called.
C22_RetrieveResult ==
    [][\A r \in Requests :
        (txn'[r] # txn[r] /\ txn'[r].pc \in {"revived", "returned", "raised"}) =>
            /\ txn'[r].read # None =>
                    /\ txn'[r].revived = 0
                    /\ txn'[r].got_from_cache
                    /\ txn'[r].result = {it.result : it \in txn'[r].read}
            /\ txn'[r].read = None =>
                    /\ txn'[r].revived = 1
                    /\ ~txn'[r].got_from_cache
                    /\ txn'[r].pc # "raised"
                    /\ txn'[r].pc = "returned" =>
                            \E it \in cache' : it.key = txn'[r].call /\ Some(it.result) = txn'[r].result
            /\ txn'[r].got_from_cache <=> txn'[r].revived = 0
      ]_vars

\* C27: retrieve never creates an item under a key that has one, whatever the
\* clock does between its statements and whatever another retrieve does: no
\* create violates the unique constraint, and no key has two items.
C27_NoSecondItem ==
    /\ \A r \in Requests : txn[r].pc # "raised"
    /\ UQ_url_param_headers(cache)

\* C29: is_empty is true exactly when the cache holds no item.
C29_IsEmpty ==
    is_empty(cache) <=> cache = {}

\* C28: a '_save' of the download form writes only if a download is cached for
\* its moment_from and moment_to and holds every selected moment; it then passes
\* the selected cached points with the dates of the form to save_history_data
\* and drops the cache entry and the session info, so that the same '_save'
\* once more is rejected. With nothing selected, no cache entry or a selected
\* moment that the entry lacks, the table, the cache and the session stay.
C28_SaveWizard ==
    \A range \in FormRanges, history_choices \in SUBSET FormMoments :
        \A before \in {[intervals |-> intervals, history |-> history, nextId |-> nextId]} :
        \A after \in {save_posted(before, static.history_data, session,
                                  range[1], range[2], history_choices)} :
            /\ after.ended = "saved" =>
                    /\ range \in DOMAIN static.history_data
                    /\ history_choices \subseteq DOMAIN static.history_data[range]
                    /\ after.store = saved(intervals, history, nextId,
                                           [m \in history_choices |-> static.history_data[range][m]],
                                           range[1], range[2])
                    /\ range \notin DOMAIN after.history_data
                    /\ \A other \in DOMAIN static.history_data \ {range} :
                            /\ other \in DOMAIN after.history_data
                            /\ after.history_data[other] = static.history_data[other]
                    /\ after.session = None
                    /\ save_posted(after.store, after.history_data, after.session,
                                   range[1], range[2], history_choices).ended = "form_invalid"
            /\ after.ended # "saved" =>
                    /\ after.store = before
                    /\ after.history_data = static.history_data
                    /\ after.session = session
            /\ (\/ history_choices = {}
                \/ range \notin DOMAIN static.history_data
                \/ ~(history_choices \subseteq DOMAIN static.history_data[range])) =>
                    after.ended # "saved"

\* a stored point that the cached download of the session's range lacks and a
\* downloaded point of another value; a '_save' of the downloaded point is
\* accepted, one of both points is not
C28_Witness ==
    \E range \in session :
        /\ range \in DOMAIN static.history_data
        /\ \E m \in DOMAIN static.history_data[range] :
                /\ m \in DOMAIN history
                /\ history[m] # static.history_data[range][m]
                /\ save_posted([intervals |-> intervals, history |-> history, nextId |-> nextId],
                               static.history_data, session,
                               range[1], range[2], {m}).ended = "saved"
        /\ \E missed \in DOMAIN history \ DOMAIN static.history_data[range] :
                missed \in history_field_choices(session, static.history_data, history)

====
